---------------------------- MODULE Spec2Model ----------------------------
(***************************************************************************)
(* A model of superinference's GitHub client (src/superinference/github.py):*)
(* the error mapping, the REST paginator, the repository aggregation and   *)
(* the contribution aggregation of GithubProfile, and the perform_inference*)
(* run that chains them.                                                   *)
(*                                                                         *)
(* Strings that the code takes apart (the Link header, the rate-limit      *)
(* header) are sequences of tokens; strings that the code only compares    *)
(* are TLA+ strings.  Python's None is the string "None" where the value   *)
(* is a string, the empty sequence where the value is a URL, and a record  *)
(* of its own where the value is a text or a result.                       *)
(***************************************************************************)
EXTENDS Integers, Sequences, FiniteSets, TLC

VARIABLES
    username,            \* GithubProfile.username
    access_token,        \* GithubBaseClass.access_token
    inference,           \* GithubBaseClass.inference
    top_repo_n,          \* argument of perform_inference / _repository_inference
    top_language_n,      \* argument of perform_inference / _skill_inference
    include_private,     \* argument of perform_inference
    pc,                  \* position of the running call
    exc,                 \* the exception that ended the call, NoExc if none
    requests,            \* every HTTP request issued so far, in order
    token_login,         \* upstream: the login GitHub associates with the token
    pages,               \* upstream: the page chain the listing endpoint serves
    link_style,          \* upstream: order of the entries in the Link header
    server_statuses,     \* upstream: the statuses it answers a known URL with
    url,                 \* _multipage_request: url
    item_list,           \* _multipage_request: item_list
    incomplete_results,  \* _multipage_request: incomplete_results
    is_search,           \* _multipage_request: is_search
    response,            \* _multipage_request: the last response's JSON total_count
    total_count,         \* _multipage_request: total_count returned, -1 if none is
    repository,          \* result of _repository_inference
    created_at,          \* upstream: the profile's created_at
    today,               \* the clock: datetime.now()
    calendar,            \* upstream: the contribution calendar, day by day
    activity,            \* upstream: the contributions by year, kind and repository
    year,                \* _contribution_inference: i, the year of the loop
    contributions_per_day,   \* _contribution_inference
    contributions_per_repo,  \* _contribution_inference
    contributions_count,     \* _contribution_inference
    sorted_count,        \* _contribution_inference
    weekly_avg,          \* _contribution_inference: weekly_avg_contributions
    contrib_index,       \* _contribution_inference: place of r in original_repos[:10]
    contrib_data,        \* _contribution_inference
    contribution,        \* result of _contribution_inference
    bio,                 \* upstream: the bio of the profile
    readme,              \* upstream: README.md of the profile repository
    taxonomy,            \* upstream: profileTagsChoices.json
    profile,             \* result of _profile_inference
    key_qualifications,  \* _skill_inference
    lang_index,          \* _skill_inference: place of r in original_repos
    languages_count,     \* _skill_inference
    skill                \* result of _skill_inference

vars == <<username, access_token, inference, top_repo_n, include_private, pc, exc,
          requests, token_login, pages, link_style, server_statuses, url,
          item_list, incomplete_results, is_search, response, total_count,
          repository, created_at, today, calendar, activity, year,
          contributions_per_day, contributions_per_repo, contributions_count,
          sorted_count, weekly_avg, contrib_index, contrib_data, contribution,
          top_language_n, bio, readme, taxonomy, profile, key_qualifications,
          lang_index, languages_count, skill>>

(***************************************************************************)
(* Bounds of the model.                                                    *)
(***************************************************************************)
MaxCalls == 2
MaxPages == 3
MaxPerPage == 2

(***************************************************************************)
(* Python values.                                                          *)
(***************************************************************************)
None == "None"

\* Truthiness of an optional string: None and "" are falsy.
Truthy(s) == s # None /\ s # ""

Tokens == {None, "", "ghp_token"}

\* A str the code reads word by word is a sequence of tokens, the words and
\* the characters between them; None is apart from every such str.
Str(s) == [is_none |-> FALSE, s |-> s]

NoneStr == [is_none |-> TRUE, s |-> <<>>]

\* if bio:
TruthyStr(x) == ~x.is_none /\ x.s # <<>>

(***************************************************************************)
(* Dates.  A datetime is year, month, day and hour; minutes and seconds    *)
(* play no part in what the code computes from it.                         *)
(***************************************************************************)
DT(y, m, d, h) == [y |-> y, m |-> m, d |-> d, h |-> h]

IsLeap(y) == (y % 4 = 0 /\ y % 100 # 0) \/ y % 400 = 0

DaysInMonth(y, m) ==
    IF m = 2 THEN (IF IsLeap(y) THEN 29 ELSE 28)
    ELSE IF m \in {4, 6, 9, 11} THEN 30 ELSE 31

RECURSIVE DaysBeforeMonth(_, _)
DaysBeforeMonth(y, m) ==
    IF m = 1 THEN 0 ELSE DaysBeforeMonth(y, m - 1) + DaysInMonth(y, m - 1)

DaysBeforeYear(y) ==
    (y - 1) * 365 + ((y - 1) \div 4) - ((y - 1) \div 100) + ((y - 1) \div 400)

\* date.toordinal(): day 1 is 0001-01-01.
Ordinal(dt) == DaysBeforeYear(dt.y) + DaysBeforeMonth(dt.y, dt.m) + dt.d

\* The datetime in hours, for comparison and subtraction.
Hours(dt) == Ordinal(dt) * 24 + dt.h

\* (a - b).days
DaysBetween(a, b) == (Hours(a) - Hours(b)) \div 24

DayNames == <<"Mon", "Tue", "Wed", "Thu", "Fri", "Sat", "Sun">>

MonthNames == <<"Jan", "Feb", "Mar", "Apr", "May", "Jun",
                "Jul", "Aug", "Sep", "Oct", "Nov", "Dec">>

\* strftime("%a") and strftime("%b")
DayName(dt) == DayNames[((Ordinal(dt) + 6) % 7) + 1]

MonthName(dt) == MonthNames[dt.m]

\* datetime.strptime(c["date"], "%Y-%m-%d"): midnight of that day.
ParseDate(date) == DT(date.y, date.m, date.d, 0)

\* round(a / b) for a >= 0 and b > 0: Python rounds a half to the even side.
RoundDiv(a, b) ==
    LET q == a \div b
        r == a % b
    IN  IF 2 * r < b THEN q
        ELSE IF 2 * r > b THEN q + 1
        ELSE IF q % 2 = 0 THEN q ELSE q + 1

(***************************************************************************)
(* Python dicts: the (key, value) pairs in insertion order.                *)
(***************************************************************************)
DictHas(d, k) == \E i \in 1..Len(d) : d[i].k = k

\* d.get(k, default)
DictGet(d, k, default) ==
    IF DictHas(d, k) THEN d[CHOOSE i \in 1..Len(d) : d[i].k = k].v ELSE default

\* d[k] = v
DictPut(d, k, v) ==
    IF DictHas(d, k)
    THEN [i \in 1..Len(d) |-> IF d[i].k = k THEN [k |-> k, v |-> v] ELSE d[i]]
    ELSE Append(d, [k |-> k, v |-> v])

RECURSIVE SumValues(_)
SumValues(d) == IF d = <<>> THEN 0 ELSE d[1].v + SumValues(Tail(d))

(***************************************************************************)
(* Exceptions.  An exception is its message, plus the status code or the   *)
(* GraphQL message that an f-string puts into it.                          *)
(***************************************************************************)
Exc(m, c, d) == [msg |-> m, code |-> c, detail |-> d]

NoExc == Exc("", 0, "")

MsgGraphQL == "GraphQL API query error - "
MsgInvalidToken == "Invalid access token. Please check your access token and try again."
MsgTokenRequired == "include_private feature requires an access token. Please provide an access token and try again."
MsgRateLimitToken == "API rate limit exceeded, please try again later."
MsgRateLimitNoToken == "API rate limit exceeded, please provide an access token to increase rate limit."
MsgNotFound == "The requested data is unavailable. Please ensure that you have entered the correct parameters and try again."
MsgStatus == "Error with status code of: "
MsgIdentity == "If you want to include private repositories, please ensure that the Github username is associated with the provided access token."
\* Exceptions Python itself raises on a malformed body.
MsgIndexError == "IndexError: list index out of range"
MsgKeyError == "KeyError"
MsgTypeError == "TypeError: NoneType object is not subscriptable"
MsgZeroDivision == "ZeroDivisionError: division by zero"

(***************************************************************************)
(* Responses.  A GraphQL body has an "errors" member or not; when it has,  *)
(* errors is the sequence of the errors' messages.  data is "full", "null" *)
(* or "absent".                                                            *)
(***************************************************************************)
Statuses == {200, 201, 401, 403, 404, 500}

Body(h, e, d) == [has_errors |-> h, errors |-> e, data |-> d]

NoBody == Body(FALSE, <<>>, "full")

ErrorLists == {<<>>, <<"">>, <<"rate limited">>, <<"", "rate limited">>}

GraphqlBodies ==
    {NoBody} \cup {Body(TRUE, e, d) : e \in ErrorLists, d \in {"full", "null", "absent"}}

\* _error_handling: the exception it raises, NoExc when it returns.
error_handling_401_swapped(status, token, graphql, body) ==
    IF status = 200 THEN
        IF graphql /\ body.has_errors THEN
            IF body.errors = <<>> THEN Exc(MsgIndexError, 0, "")
            ELSE IF body.errors[1] # "" THEN Exc(MsgGraphQL, 0, body.errors[1])
            ELSE NoExc
        ELSE NoExc
    ELSE IF status = 401 THEN
        IF Truthy(token) THEN Exc(MsgTokenRequired, 0, "") ELSE Exc(MsgInvalidToken, 0, "")
    ELSE IF status = 403 THEN
        IF Truthy(token) THEN Exc(MsgRateLimitToken, 0, "") ELSE Exc(MsgRateLimitNoToken, 0, "")
    ELSE IF status = 404 THEN Exc(MsgNotFound, 0, "")
    ELSE Exc(MsgStatus, status, "")

error_handling(status, token, graphql, body) ==
    IF status = 200 THEN
        IF graphql /\ body.has_errors THEN
            IF body.errors = <<>> THEN Exc(MsgIndexError, 0, "")
            ELSE IF body.errors[1] # "" THEN Exc(MsgGraphQL, 0, body.errors[1])
            ELSE NoExc
        ELSE NoExc
    ELSE IF status = 401 THEN
        IF Truthy(token) THEN Exc(MsgInvalidToken, 0, "") ELSE Exc(MsgTokenRequired, 0, "")
    ELSE IF status = 403 THEN
        IF Truthy(token) THEN Exc(MsgRateLimitToken, 0, "") ELSE Exc(MsgRateLimitNoToken, 0, "")
    ELSE IF status = 404 THEN Exc(MsgNotFound, 0, "")
    ELSE Exc(MsgStatus, status, "")

request_outcome_500_tolerated(status, token, handle) ==
    IF handle /\ status # 500 THEN error_handling(status, token, FALSE, NoBody) ELSE NoExc

\* _request: the exception the call ends with for a response of this status.
request_outcome(status, token, handle) ==
    IF handle THEN error_handling(status, token, FALSE, NoBody) ELSE NoExc

\* _graphql_request: the exception the call ends with.
graphql_request_outcome(status, token, body) ==
    error_handling(status, token, TRUE, body)

(***************************************************************************)
(* The request log.  A URL is a sequence of tokens: a well-formed one is   *)
(* one "url" token naming the endpoint and the page.                       *)
(***************************************************************************)
Tok(c) == [t |-> c, endpoint |-> "", page |-> 0]

UrlTok(e, p) == [t |-> "url", endpoint |-> e, page |-> p]

Url(e, p) == <<UrlTok(e, p)>>

NoUrl == <<>>

\* "Authorization" is sent exactly when the token is truthy.
Logged(method, u, token, status, handle, graphql, body, outcome) ==
    [method |-> method, url |-> u, auth |-> Truthy(token), status |-> status,
     handled |-> handle, graphql |-> graphql, body |-> body, outcome |-> outcome]

(***************************************************************************)
(* Upstream: repositories and the page chain of a listing endpoint.        *)
(***************************************************************************)
Repo(id, owner, fork, stars, forks) ==
    [name |-> id, owner_login |-> owner, fork |-> fork,
     stargazers_count |-> stars, forks_count |-> forks]

Page(items, remaining, total) ==
    [items |-> items, remaining |-> remaining, total_count |-> total]

\* The X-Ratelimit-Remaining header, a string of decimal digits.
RemainingHeaders == {<<0>>, <<1, 0>>}

LinkStyles == {"next_first", "prev_first"}

RelNext == Tok("rel=next")

Entry(u, rel) == <<Tok("<"), u, Tok(">"), Tok(";"), Tok(" "), Tok(rel)>>

RECURSIVE JoinEntries(_)
JoinEntries(es) ==
    IF es = <<>> THEN <<>>
    ELSE IF Len(es) = 1 THEN es[1]
    ELSE es[1] \o <<Tok(","), Tok(" ")>> \o JoinEntries(Tail(es))

\* The Link header of page k of n: GitHub sends prev, next, last, first in
\* this order ("prev_first"); RFC 8288 allows any order ("next_first").
LinkEntries(endpoint, k, n, style) ==
    LET prev  == IF k > 1 THEN <<Entry(UrlTok(endpoint, k - 1), "rel=prev")>> ELSE <<>>
        next  == IF k < n THEN <<Entry(UrlTok(endpoint, k + 1), "rel=next")>> ELSE <<>>
        last  == IF k < n THEN <<Entry(UrlTok(endpoint, n), "rel=last")>> ELSE <<>>
        first == IF k > 1 THEN <<Entry(UrlTok(endpoint, 1), "rel=first")>> ELSE <<>>
    IN  IF style = "prev_first" THEN prev \o next \o last \o first
        ELSE next \o last \o prev \o first

\* The headers of the response that carries page k: no Link header when the
\* result has a single page.
Headers(endpoint, k, n, style, remaining) ==
    [has_link |-> n > 1,
     Link |-> JoinEntries(LinkEntries(endpoint, k, n, style)),
     remaining |-> remaining]

EpProfile == "/users/{username}"
EpUser == "/user"
EpUserRepos == "/user/repos?per_page=100"
EpUsersRepos == "/users/{username}/repos?per_page=100"
EpSearch == "/search/issues?per_page=100"
EpGraphql == "/graphql"

ListingEndpoints == {EpUserRepos, EpUsersRepos, EpSearch}

\* The page of the chain a URL names, 0 when the URL names none: the server
\* knows the URLs it handed out and nothing else.
PageOf(u, n) ==
    IF Len(u) = 1 /\ u[1].t = "url" /\ u[1].endpoint \in ListingEndpoints /\ u[1].page \in 1..n
    THEN u[1].page
    ELSE 0

\* The statuses the server may answer a request for u with.
StatusesFor(u, n, known) == IF PageOf(u, n) = 0 THEN {404} ELSE known

(***************************************************************************)
(* String functions of Python, on token sequences.                         *)
(***************************************************************************)
\* s.find(tok): the first index of tok in s, 0 when there is none.
Find(s, tok) ==
    IF \E i \in 1..Len(s) : s[i] = tok
    THEN CHOOSE i \in 1..Len(s) : s[i] = tok /\ \A j \in 1..(i - 1) : s[j] # tok
    ELSE 0

\* s.split(tok)[0]
SplitHead(s, tok) ==
    IF Find(s, tok) = 0 THEN s ELSE SubSeq(s, 1, Find(s, tok) - 1)

RECURSIVE LStrip(_, _)
LStrip(s, chars) ==
    IF s # <<>> /\ s[1] \in chars THEN LStrip(Tail(s), chars) ELSE s

RECURSIVE RStrip(_, _)
RStrip(s, chars) ==
    IF s # <<>> /\ s[Len(s)] \in chars THEN RStrip(SubSeq(s, 1, Len(s) - 1), chars) ELSE s

\* s.strip(chars)
Strip(s, chars) == RStrip(LStrip(s, chars), chars)

\* int(s) of a string of decimal digits
RECURSIVE PyInt(_)
PyInt(digits) ==
    IF digits = <<>> THEN 0
    ELSE 10 * PyInt(SubSeq(digits, 1, Len(digits) - 1)) + digits[Len(digits)]

StripChars == {Tok("<"), Tok(">"), Tok(";"), Tok(" ")}

\* _parse_next_link
parse_next_link(headers) ==
    IF headers.has_link THEN
        IF Find(headers.Link, RelNext) # 0
        THEN Strip(SplitHead(headers.Link, RelNext), StripChars)
        ELSE NoUrl
    ELSE NoUrl

\* "/search/" in url
InSearch(u) == \E i \in 1..Len(u) : u[i].endpoint = EpSearch

\* The loop's stop test of _multipage_request: url and remaining_rate == 0
rate_limit_stop_any_page(next_url, remaining_rate) == remaining_rate = 0

rate_limit_stop(next_url, remaining_rate) == next_url # NoUrl /\ remaining_rate = 0

(***************************************************************************)
(* The state every specification starts from, but for its own inputs.      *)
(***************************************************************************)
NoRepository == [repos |-> <<>>, stats |-> <<>>, original_repos |-> <<>>]

NoCounts ==
    [day |-> <<>>, month |-> <<>>, owned_repo |-> <<>>, other_repo |-> <<>>,
     User |-> <<>>, Organization |-> <<>>]

\* self.inference = None, line 18: no result is stored.
NoInference == [stored |-> FALSE]

\* The value of contribution before _contribution_inference has returned.
NoContribution == [returned |-> FALSE]

Idle ==
    /\ username = "alice"
    /\ inference = NoInference
    /\ exc = NoExc
    /\ requests = <<>>
    /\ item_list = <<>>
    /\ incomplete_results = FALSE
    /\ response = -1
    /\ total_count = -1
    /\ year = 0
    /\ contributions_per_day = <<>>
    /\ contributions_per_repo = <<>>
    /\ contributions_count = 0
    /\ sorted_count = NoCounts
    /\ weekly_avg = 0
    /\ contrib_index = 0
    /\ contrib_data = <<>>
    /\ contribution = NoContribution

\* An upstream with no contribution history, for the calls that read none.
NoHistory ==
    /\ created_at = DT(2022, 12, 30, 10)
    /\ today = DT(2024, 3, 1, 12)
    /\ calendar = <<>>
    /\ activity = <<>>

\* An upstream with no profile text, and a call that has inferred no skill.
NoProfile == [returned |-> FALSE]

NoSkillResult == [returned |-> FALSE]

NoSkill ==
    /\ top_language_n = 3
    /\ bio = NoneStr
    /\ readme = NoneStr
    /\ taxonomy = <<>>
    /\ profile = NoProfile
    /\ key_qualifications = {}
    /\ lang_index = 0
    /\ languages_count = <<>>
    /\ skill = NoSkillResult

object == <<username, access_token, inference>>
arguments == <<top_repo_n, top_language_n, include_private>>
upstream == <<token_login, pages, link_style, server_statuses, created_at, today,
              calendar, activity, bio, readme, taxonomy>>
skills == <<profile, key_qualifications, lang_index, languages_count, skill>>
paging == <<url, item_list, incomplete_results, is_search, response, total_count>>
contrib == <<year, contributions_per_day, contributions_per_repo, contributions_count,
             sorted_count, weekly_avg, contrib_index, contrib_data, contribution>>

(***************************************************************************)
(* _request and _graphql_request, called on their own.                     *)
(***************************************************************************)
CallRequest ==
    /\ pc = "api"
    /\ Len(requests) < MaxCalls
    /\ \E status \in Statuses, handle \in BOOLEAN :
          LET outcome == request_outcome(status, access_token, handle)
          IN  /\ requests' = Append(requests,
                    Logged("GET", Url(EpProfile, 1), access_token, status, handle,
                           FALSE, NoBody, outcome))
              /\ exc' = outcome
    /\ UNCHANGED <<object, arguments, upstream, skills, paging, pc, repository, contrib>>

CallGraphql ==
    /\ pc = "api"
    /\ Len(requests) < MaxCalls
    /\ \E status \in Statuses, body \in GraphqlBodies :
          LET outcome == graphql_request_outcome(status, access_token, body)
          IN  /\ requests' = Append(requests,
                    Logged("POST", Url(EpGraphql, 1), access_token, status, TRUE,
                           TRUE, body, outcome))
              /\ exc' = outcome
    /\ UNCHANGED <<object, arguments, upstream, skills, paging, pc, repository, contrib>>

InitApi ==
    /\ Idle
    /\ NoSkill
    /\ repository = NoRepository
    /\ NoHistory
    /\ access_token \in Tokens
    /\ pc = "api"
    /\ top_repo_n = 3
    /\ include_private = FALSE
    /\ token_login = "alice"
    /\ pages = <<>>
    /\ link_style = "prev_first"
    /\ server_statuses = Statuses
    /\ url = NoUrl
    /\ is_search = FALSE

NextApi == CallRequest \/ CallGraphql

SpecApi == InitApi /\ [][NextApi]_vars

(***************************************************************************)
(* _multipage_request.  One action per iteration of its loop (one request) *)
(* and one for its return.                                                 *)
(***************************************************************************)
Raise(e) ==
    /\ pc' = "raised"
    /\ exc' = e

MultipageFetch ==
    /\ pc = "paging"
    /\ url # NoUrl
    /\ \E status \in StatusesFor(url, Len(pages), server_statuses) :
          LET outcome == request_outcome(status, access_token, TRUE)
              k       == PageOf(url, Len(pages))
              headers == Headers(url[1].endpoint, k, Len(pages), link_style,
                                 pages[k].remaining)
              next_url == parse_next_link(headers)
              remaining_rate == PyInt(headers.remaining)
          IN  /\ requests' = Append(requests,
                    Logged("GET", url, access_token, status, TRUE, FALSE, NoBody, outcome))
              /\ IF outcome # NoExc
                 THEN /\ Raise(outcome)
                      /\ UNCHANGED paging
                 ELSE /\ item_list' = item_list \o pages[k].items
                      /\ response' = pages[k].total_count
                      /\ IF rate_limit_stop(next_url, remaining_rate)
                         THEN incomplete_results' = TRUE /\ url' = NoUrl
                         ELSE incomplete_results' = incomplete_results /\ url' = next_url
                      /\ UNCHANGED <<pc, exc, is_search, total_count>>
    /\ UNCHANGED <<object, arguments, upstream, skills, repository, contrib>>

MultipageReturn ==
    /\ pc = "paging"
    /\ url = NoUrl
    /\ pc' = "paged"
    /\ total_count' = IF is_search THEN response ELSE -1
    /\ UNCHANGED <<object, arguments, upstream, skills, repository, contrib, exc, requests,
                   url, item_list, incomplete_results, is_search, response>>

\* The repositories of a chain are named by their place in it.
PlainRepo(id) == Repo(id, "alice", FALSE, 0, 0)

RECURSIVE SumTo(_, _)
SumTo(lens, k) == IF k = 0 THEN 0 ELSE lens[k] + SumTo(lens, k - 1)

\* The chain whose page k has lens[k] items and the header remaining[k].
Chain(lens, remaining) ==
    [k \in 1..Len(lens) |->
        Page([j \in 1..lens[k] |-> PlainRepo(SumTo(lens, k - 1) + j)],
             remaining[k], SumTo(lens, Len(lens)))]

Chains ==
    UNION {{Chain(lens, remaining) :
                lens \in [1..n -> 0..MaxPerPage], remaining \in [1..n -> RemainingHeaders]} :
           n \in 1..MaxPages}

InitPages ==
    /\ Idle
    /\ NoSkill
    /\ repository = NoRepository
    /\ NoHistory
    /\ access_token \in {None, "ghp_token"}
    /\ pc = "paging"
    /\ top_repo_n = 3
    /\ include_private = FALSE
    /\ token_login = "alice"
    /\ pages \in Chains
    /\ link_style \in LinkStyles
    /\ server_statuses = {200}
    /\ \E endpoint \in {EpUsersRepos, EpSearch} :
          /\ url = Url(endpoint, 1)
          /\ is_search = InSearch(url)

NextPages == MultipageFetch \/ MultipageReturn

SpecPages == InitPages /\ [][NextPages]_vars

(***************************************************************************)
(* _repository_inference: what it computes from the list the paginator     *)
(* returned.                                                               *)
(***************************************************************************)
\* The sort key: lambda r: r["stargazers_count"] + r["forks_count"]
popularity(r) == r.stargazers_count + r.forks_count

RECURSIVE Reverse(_)
Reverse(s) == IF s = <<>> THEN <<>> ELSE Append(Reverse(Tail(s)), s[1])

\* A list with its sort keys: key(s[i]) beside s[i].
Keyed(s, key(_)) == [i \in 1..Len(s) |-> [key |-> key(s[i]), val |-> s[i]]]

Vals(s) == [i \in 1..Len(s) |-> s[i].val]

\* x put into the ascending list s behind every element that is not larger.
RECURSIVE InsertByKey(_, _)
InsertByKey(x, s) ==
    IF s = <<>> THEN <<x>>
    ELSE IF x.key < s[1].key THEN <<x>> \o s
    ELSE <<s[1]>> \o InsertByKey(x, Tail(s))

\* A stable ascending sort, as list.sort and sorted are.
RECURSIVE SortAscending(_)
SortAscending(s) ==
    IF s = <<>> THEN <<>>
    ELSE InsertByKey(s[Len(s)], SortAscending(SubSeq(s, 1, Len(s) - 1)))

\* sorted(s, key=..., reverse=True) and s.sort(key=..., reverse=True): the
\* list is reversed, sorted ascending and stable, and reversed again.
SortedReverse(keyed) == Vals(Reverse(SortAscending(Reverse(keyed))))

sort_repos_ties_reversed(repos) == Vals(Reverse(SortAscending(Keyed(repos, popularity))))

\* repos.sort(key=lambda r: r["stargazers_count"] + r["forks_count"], reverse=True)
sort_repos(repos) == SortedReverse(Keyed(repos, popularity))

is_original_any_owner(r, login) == r.fork = FALSE

is_original(r, login) == r.fork = FALSE /\ r.owner_login = login

is_forked(r, login) == r.fork = TRUE /\ r.owner_login = login

\* s[:n]
SliceTo(s, n) ==
    IF n >= 0 THEN SubSeq(s, 1, IF n < Len(s) THEN n ELSE Len(s))
    ELSE SubSeq(s, 1, IF Len(s) + n > 0 THEN Len(s) + n ELSE 0)

RECURSIVE SumStars(_)
SumStars(s) == IF s = <<>> THEN 0 ELSE s[1].stargazers_count + SumStars(Tail(s))

RECURSIVE SumForks(_)
SumForks(s) == IF s = <<>> THEN 0 ELSE s[1].forks_count + SumForks(Tail(s))

popular_repo(r) ==
    [name |-> r.name, stargazers_count |-> r.stargazers_count, forks_count |-> r.forks_count]

repository_inference(fetched, incomplete, login, top_n) ==
    LET repos          == sort_repos(fetched)
        original_repos == SelectSeq(repos, LAMBDA r : is_original(r, login))
        forked_repos   == SelectSeq(repos, LAMBDA r : is_forked(r, login))
        top            == SliceTo(original_repos, top_n)
    IN  [repos |-> repos,
         stats |-> [incomplete_repo_results |-> incomplete,
                    inference_from_repo_count |-> Len(repos),
                    original_repo_count |-> Len(original_repos),
                    forked_repo_count |-> Len(forked_repos),
                    counts |-> [stargazers_count |-> SumStars(original_repos),
                                forks_count |-> SumForks(original_repos)],
                    top_repo_stars_forks |-> [i \in 1..Len(top) |-> popular_repo(top[i])]],
         original_repos |-> original_repos]

\* The part of _repository_inference behind its _multipage_request call.
RepositoryAggregate ==
    /\ pc = "paged"
    /\ ~is_search
    /\ repository' = repository_inference(item_list, incomplete_results, username, top_repo_n)
    /\ pc' = "repo_done"
    /\ UNCHANGED <<object, arguments, upstream, skills, paging, contrib, exc, requests>>

Owners == {"alice", "octo-org"}
StarCounts == {0, 1}
ForkCounts == {0, 1}
MaxRepos == 3

\* The lists of n repositories, named 1..n in the order they were fetched.
RepoLists(n) ==
    {[i \in 1..n |-> Repo(i, f[i][1], f[i][2], f[i][3], f[i][4])] :
        f \in [1..n -> Owners \X BOOLEAN \X StarCounts \X ForkCounts]}

\* The state in which _multipage_request has just returned a list.
InitRepo ==
    /\ username = "alice"
    /\ inference = NoInference
    /\ exc = NoExc
    /\ requests = <<>>
    /\ response = -1
    /\ total_count = -1
    /\ repository = NoRepository
    /\ year = 0
    /\ contributions_per_day = <<>>
    /\ contributions_per_repo = <<>>
    /\ contributions_count = 0
    /\ sorted_count = NoCounts
    /\ weekly_avg = 0
    /\ contrib_index = 0
    /\ contrib_data = <<>>
    /\ contribution = NoContribution
    /\ NoSkill
    /\ NoHistory
    /\ access_token = None
    /\ pc = "paged"
    /\ top_repo_n \in -1..MaxRepos
    /\ include_private = FALSE
    /\ token_login = "alice"
    /\ pages = <<>>
    /\ link_style = "prev_first"
    /\ server_statuses = {200}
    /\ url = NoUrl
    /\ is_search = FALSE
    /\ incomplete_results \in BOOLEAN
    /\ \E n \in 0..MaxRepos : item_list \in RepoLists(n)

NextRepo == RepositoryAggregate

SpecRepo == InitRepo /\ [][NextRepo]_vars

(***************************************************************************)
(* _contribution_inference: the year windows and what is computed from the *)
(* responses.                                                              *)
(***************************************************************************)
\* The window of year i, lines 341-349.
window(i, created_date, now) ==
    IF i = created_date.y THEN [from |-> created_date, to |-> DT(i, 12, 31, 0)]
    ELSE IF i = now.y THEN [from |-> DT(i, 1, 1, 0), to |-> now]
    ELSE [from |-> DT(i, 1, 1, 0), to |-> DT(i, 12, 31, 0)]

\* for week in weeks: new_contribution_day.extend(week["contributionDays"])
RECURSIVE Flatten(_)
Flatten(weeks) == IF weeks = <<>> THEN <<>> ELSE weeks[1] \o Flatten(Tail(weeks))

\* One pass of the loop of lines 383-397 over the day c.
count_day_recent_only(count, c, one_year_ago) ==
    LET c_date  == ParseDate(c.date)
        recent  == Hours(c_date) >= one_year_ago
        n       == c.contributionCount
        day     == DictGet(count.day, DayName(c_date), <<0, 0>>)
        month   == DictGet(count.month, MonthName(c_date), <<0, 0>>)
    IN  [day   |-> DictPut(count.day, DayName(c_date),
                           <<day[1] + (IF recent THEN n ELSE 0),
                             day[2] + (IF recent THEN n ELSE 0)>>),
         month |-> DictPut(count.month, MonthName(c_date),
                           <<month[1] + (IF recent THEN n ELSE 0), month[2] + n>>)]

count_day(count, c, one_year_ago) ==
    LET c_date  == ParseDate(c.date)
        recent  == Hours(c_date) >= one_year_ago
        n       == c.contributionCount
        day     == DictGet(count.day, DayName(c_date), <<0, 0>>)
        month   == DictGet(count.month, MonthName(c_date), <<0, 0>>)
    IN  [day   |-> DictPut(count.day, DayName(c_date),
                           <<day[1] + (IF recent THEN n ELSE 0), day[2] + n>>),
         month |-> DictPut(count.month, MonthName(c_date),
                           <<month[1] + (IF recent THEN n ELSE 0), month[2] + n>>)]

RECURSIVE count_days(_, _, _)
count_days(count, days, one_year_ago) ==
    IF days = <<>> THEN count
    ELSE count_days(count_day(count, days[1], one_year_ago), Tail(days), one_year_ago)

\* extract_repo_detail, lines 361-371 (description and top_language are
\* carried along unread, and left out).
extract_repo_detail(item) ==
    [name |-> item.repository.name,
     owner |-> item.repository.owner,
     owner_type |-> item.repository.owner_type,
     html_url |-> item.repository.url,
     contributions_count |-> item.totalCount,
     is_private |-> item.repository.isPrivate]

\* {k: v for k, v in c.items() if k not in ["owner_type", "is_private"]}
other_repo_entry(c) ==
    [name |-> c.name, owner |-> c.owner, html_url |-> c.html_url,
     contributions_count |-> c.contributions_count]

\* next((i for i, obj in enumerate(l) if obj['html_url'] == c['html_url']), -1),
\* counted from 1, 0 for -1.
index_by_name(l, c) ==
    IF \E i \in 1..Len(l) : l[i].name = c.name
    THEN CHOOSE i \in 1..Len(l) :
            l[i].name = c.name /\ \A j \in 1..(i - 1) : l[j].name # c.name
    ELSE 0

index_of(l, c) ==
    IF \E i \in 1..Len(l) : l[i].html_url = c.html_url
    THEN CHOOSE i \in 1..Len(l) :
            l[i].html_url = c.html_url /\ \A j \in 1..(i - 1) : l[j].html_url # c.html_url
    ELSE 0

\* One pass of the loop of lines 408-421 over the record c.
final_count_step(fc, c, login) ==
    LET index == index_of(fc.other_repo, c)
        owned == IF c.owner = login
                 THEN DictPut(fc.owned_repo, c.name,
                              DictGet(fc.owned_repo, c.name, 0) + c.contributions_count)
                 ELSE fc.owned_repo
        other == IF c.owner = login THEN fc.other_repo
                 ELSE IF index = 0 THEN Append(fc.other_repo, other_repo_entry(c))
                 ELSE [fc.other_repo EXCEPT ![index].contributions_count =
                          @ + c.contributions_count]
        user  == IF c.owner_type = "User"
                 THEN DictPut(fc.User, c.owner,
                              DictGet(fc.User, c.owner, 0) + c.contributions_count)
                 ELSE fc.User
        org   == IF c.owner_type = "Organization"
                 THEN DictPut(fc.Organization, c.owner,
                              DictGet(fc.Organization, c.owner, 0) + c.contributions_count)
                 ELSE fc.Organization
    IN  [owned_repo |-> owned, other_repo |-> other, User |-> user, Organization |-> org]

RECURSIVE final_count_fold(_, _, _)
final_count_fold(fc, cs, login) ==
    IF cs = <<>> THEN fc
    ELSE final_count_fold(final_count_step(fc, cs[1], login), Tail(cs), login)

recent_of(item) == item.v[1]
value_of(item) == item.v
contributions_of(c) == c.contributions_count

kept_records_all(per_repo, private) == per_repo

\* Lines 378-379: the records kept.
kept_records(per_repo, private) ==
    IF ~private THEN SelectSeq(per_repo, LAMBDA c : ~c.is_private) ELSE per_repo

\* Lines 381-430: the counts, sorted.
sorted_counts(per_day, kept, login, now) ==
    LET count == count_days([day |-> <<>>, month |-> <<>>], per_day,
                            Hours(now) - 365 * 24)
        fc    == final_count_fold([owned_repo |-> <<>>, other_repo |-> <<>>,
                                   User |-> <<>>, Organization |-> <<>>], kept, login)
    IN  [day          |-> SortedReverse(Keyed(count.day, recent_of)),
         month        |-> SortedReverse(Keyed(count.month, recent_of)),
         owned_repo   |-> SortedReverse(Keyed(fc.owned_repo, value_of)),
         other_repo   |-> SortedReverse(Keyed(fc.other_repo, contributions_of)),
         User         |-> SortedReverse(Keyed(fc.User, value_of)),
         Organization |-> SortedReverse(Keyed(fc.Organization, value_of))]

\* round((today - created_date).days / 7)
total_weeks(created_date, now) == RoundDiv(DaysBetween(now, created_date), 7)

weekly_avg_contributions_truncated(n, weeks) == (n * 1000) \div weeks

\* round(contributions_count / total_weeks, 3), in thousandths.
weekly_avg_contributions(n, weeks) == RoundDiv(n * 1000, weeks)

\* Lines 441-447: the contributions of others to the top repositories.
RECURSIVE incoming_contribution(_, _, _)
incoming_contribution(acc, data, login) ==
    IF data = <<>> THEN acc
    ELSE incoming_contribution(
            IF data[1].login # login
            THEN DictPut(acc, data[1].login,
                         DictGet(acc, data[1].login, 0) + data[1].contributions)
            ELSE acc,
            Tail(data), login)

(***************************************************************************)
(* Upstream: what the GraphQL endpoint and the contributors endpoint       *)
(* answer.                                                                 *)
(***************************************************************************)
EpContributors == "contributors_url"

\* The bodies a server sends: one that answers every request with 200 sends
\* no GraphQL errors either.
GraphqlBodiesOf(statuses) == IF statuses = {200} THEN {NoBody} ELSE GraphqlBodies

\* Weeks start on Sunday.
WeekOf(date) == Ordinal(date) \div 7

RECURSIVE GroupWeeks(_)
GroupWeeks(days) ==
    IF days = <<>> THEN <<>>
    ELSE LET rest == GroupWeeks(SubSeq(days, 1, Len(days) - 1))
             day  == days[Len(days)]
         IN  IF Len(days) > 1 /\ WeekOf(days[Len(days) - 1].date) = WeekOf(day.date)
             THEN [rest EXCEPT ![Len(rest)] = Append(@, day)]
             ELSE Append(rest, <<day>>)

RECURSIVE SumDays(_)
SumDays(days) == IF days = <<>> THEN 0 ELSE days[1].contributionCount + SumDays(Tail(days))

\* contributionCalendar of the window w: the days from w.from's to w.to's,
\* and their total.
DayResponse(w) ==
    LET days == SelectSeq(calendar, LAMBDA c :
                    /\ Ordinal(w.from) <= Ordinal(c.date)
                    /\ Ordinal(c.date) <= Ordinal(w.to))
    IN  [totalContributions |-> SumDays(days), weeks |-> GroupWeeks(days)]

Kinds == <<"commitContributionsByRepository", "issueContributionsByRepository",
           "pullRequestContributionsByRepository",
           "pullRequestReviewContributionsByRepository">>

\* The four lists of the window of year y.
RepoResponse(y) ==
    [k \in 1..Len(Kinds) |-> SelectSeq(activity, LAMBDA a : a.year = y /\ a.kind = k)]

\* The contributors of a repository: its owner and one other login.
Contributors(r) ==
    <<[login |-> r.owner_login, contributions |-> 3],
      [login |-> "bob", contributions |-> r.name]>>

(***************************************************************************)
(* _contribution_inference.  One action per request, one for the           *)
(* computation between the GraphQL loop and the contributors loop, one for *)
(* the return.                                                             *)
(***************************************************************************)
TopRepos == 10

NoneContribution == [returned |-> TRUE, none |-> TRUE]

ContribBegin ==
    /\ pc = "contrib"
    /\ IF ~Truthy(access_token)
       THEN /\ contribution' = NoneContribution
            /\ pc' = "contrib_done"
            /\ UNCHANGED <<year, contributions_per_day, contributions_per_repo,
                           contributions_count>>
       ELSE /\ year' = created_at.y
            /\ contributions_per_day' = <<>>
            /\ contributions_per_repo' = <<>>
            /\ contributions_count' = 0
            /\ contribution' = NoContribution
            /\ pc' = IF created_at.y <= today.y THEN "contrib_day" ELSE "contrib_sum"
    /\ UNCHANGED <<object, arguments, upstream, skills, paging, repository, exc, requests,
                   sorted_count, weekly_avg, contrib_index, contrib_data>>

\* response.json()['data'] and the subscripts that follow, on a body that
\* passed _error_handling.
data_outcome(body) ==
    IF body.data = "absent" THEN Exc(MsgKeyError, 0, "data")
    ELSE IF body.data = "null" THEN Exc(MsgTypeError, 0, "")
    ELSE NoExc

ContribDayRequest ==
    /\ pc = "contrib_day"
    /\ \E status \in server_statuses, body \in GraphqlBodiesOf(server_statuses) :
          LET outcome  == graphql_request_outcome(status, access_token, body)
              day_data == DayResponse(window(year, created_at, today))
          IN  /\ requests' = Append(requests,
                    Logged("POST", Url(EpGraphql, year), access_token, status, TRUE,
                           TRUE, body, outcome))
              /\ IF outcome # NoExc \/ data_outcome(body) # NoExc
                 THEN /\ Raise(IF outcome # NoExc THEN outcome ELSE data_outcome(body))
                      /\ UNCHANGED <<contributions_per_day, contributions_count>>
                 ELSE /\ contributions_per_day' =
                            contributions_per_day \o Flatten(day_data.weeks)
                      /\ contributions_count' =
                            contributions_count + day_data.totalContributions
                      /\ pc' = "contrib_repo"
                      /\ exc' = exc
    /\ UNCHANGED <<object, arguments, upstream, skills, paging, repository, year,
                   contributions_per_repo, sorted_count, weekly_avg, contrib_index,
                   contrib_data, contribution>>

ContribRepoRequest ==
    /\ pc = "contrib_repo"
    /\ \E status \in server_statuses, body \in GraphqlBodiesOf(server_statuses) :
          LET outcome   == graphql_request_outcome(status, access_token, body)
              repo_data == RepoResponse(year)
              new(k)    == [n \in 1..Len(repo_data[k]) |-> extract_repo_detail(repo_data[k][n])]
          IN  /\ requests' = Append(requests,
                    Logged("POST", Url(EpGraphql, year), access_token, status, TRUE,
                           TRUE, body, outcome))
              /\ IF outcome # NoExc \/ data_outcome(body) # NoExc
                 THEN /\ Raise(IF outcome # NoExc THEN outcome ELSE data_outcome(body))
                      /\ UNCHANGED <<contributions_per_repo, year>>
                 ELSE /\ contributions_per_repo' =
                            contributions_per_repo \o (new(1) \o new(2) \o new(3) \o new(4))
                      /\ year' = year + 1
                      /\ pc' = IF year + 1 <= today.y THEN "contrib_day" ELSE "contrib_sum"
                      /\ exc' = exc
    /\ UNCHANGED <<object, arguments, upstream, skills, paging, repository,
                   contributions_per_day, contributions_count, sorted_count,
                   weekly_avg, contrib_index, contrib_data, contribution>>

\* Lines 378-433.
ContribAggregate ==
    /\ pc = "contrib_sum"
    /\ contributions_per_repo' = kept_records(contributions_per_repo, include_private)
    /\ sorted_count' = sorted_counts(contributions_per_day, contributions_per_repo',
                                     username, today)
    /\ IF total_weeks(created_at, today) = 0
       THEN /\ Raise(Exc(MsgZeroDivision, 0, ""))
            /\ UNCHANGED <<weekly_avg, contrib_index, contrib_data>>
       ELSE /\ weekly_avg' = weekly_avg_contributions(contributions_count,
                                                      total_weeks(created_at, today))
            /\ contrib_index' = 1
            /\ contrib_data' = <<>>
            /\ pc' = "contrib_top"
            /\ exc' = exc
    /\ UNCHANGED <<object, arguments, upstream, skills, paging, repository, requests, year,
                   contributions_per_day, contributions_count, contribution>>

\* original_repos[:10]
top_repos == SliceTo(repository.original_repos, TopRepos)

ContribTopRequest ==
    /\ pc = "contrib_top"
    /\ contrib_index <= Len(top_repos)
    /\ \E status \in server_statuses :
          LET outcome == request_outcome(status, access_token, TRUE)
              r       == top_repos[contrib_index]
          IN  /\ requests' = Append(requests,
                    Logged("GET", Url(EpContributors, r.name), access_token, status,
                           TRUE, FALSE, NoBody, outcome))
              /\ IF outcome # NoExc
                 THEN /\ Raise(outcome)
                      /\ UNCHANGED <<contrib_index, contrib_data>>
                 ELSE /\ contrib_data' = contrib_data \o Contributors(r)
                      /\ contrib_index' = contrib_index + 1
                      /\ UNCHANGED <<pc, exc>>
    /\ UNCHANGED <<object, arguments, upstream, skills, paging, repository, year,
                   contributions_per_day, contributions_per_repo, contributions_count,
                   sorted_count, weekly_avg, contribution>>

\* Lines 441-461.
ContribReturn ==
    /\ pc = "contrib_top"
    /\ contrib_index > Len(top_repos)
    /\ contribution' =
          [returned |-> TRUE, none |-> FALSE,
           contribution_count |-> contributions_count,
           weekly_average_contribution |-> weekly_avg,
           contribution_count_per_day |-> sorted_count.day,
           contribution_count_per_month |-> sorted_count.month,
           contribution_count_per_owned_repo |-> sorted_count.owned_repo,
           contribution_count_per_other_repo |-> sorted_count.other_repo,
           contribution_count_per_repo_org_owner |-> sorted_count.Organization,
           contribution_count_per_repo_user_owner |-> sorted_count.User,
           external_contribution_to_top_10_repo |->
               SortedReverse(Keyed(incoming_contribution(<<>>, contrib_data, username),
                                   value_of))]
    /\ pc' = "contrib_done"
    /\ UNCHANGED <<object, arguments, upstream, skills, paging, repository, exc, requests,
                   year, contributions_per_day, contributions_per_repo,
                   contributions_count, sorted_count, weekly_avg, contrib_index,
                   contrib_data>>

NextContrib ==
    \/ ContribBegin
    \/ ContribDayRequest
    \/ ContribRepoRequest
    \/ ContribAggregate
    \/ ContribTopRequest
    \/ ContribReturn

(***************************************************************************)
(* The inputs of _contribution_inference.                                  *)
(***************************************************************************)
MaxDayCount == 1
MaxRecords == 2

\* The days of the calendar that may hold contributions, in order:
\* Sat 2022-12-31, Sun 2023-01-01, Tue 2023-07-04, Tue 2024-01-02,
\* Thu 2024-02-29.
CalendarDays ==
    <<DT(2022, 12, 31, 0), DT(2023, 1, 1, 0), DT(2023, 7, 4, 0), DT(2024, 1, 2, 0),
      DT(2024, 2, 29, 0)>>

Calendars ==
    {[i \in 1..Len(CalendarDays) |->
        [date |-> [y |-> CalendarDays[i].y, m |-> CalendarDays[i].m, d |-> CalendarDays[i].d],
         contributionCount |-> n[i]]] :
     n \in [1..Len(CalendarDays) -> 0..MaxDayCount]}

CreatedDates ==
    {DT(2022, 12, 30, 10), DT(2023, 6, 1, 0), DT(2024, 2, 16, 12), DT(2024, 2, 28, 18)}

Now == DT(2024, 3, 1, 12)

\* The repositories contributed to: two of the same name with different
\* owners, one of the identity's own, a private one.
ContribRepo(name, owner, owner_type, private) ==
    [name |-> name, owner |-> owner, owner_type |-> owner_type,
     url |-> <<"https://github.com", owner, name>>, isPrivate |-> private]

ContribRepos ==
    {ContribRepo("lib", "bob", "User", FALSE),
     ContribRepo("lib", "octo-org", "Organization", FALSE),
     ContribRepo("site", "alice", "User", FALSE),
     ContribRepo("vault", "octo-org", "Organization", TRUE)}

TotalCounts == {1, 2}

ActivityYears == {2023, 2024}

Contributions ==
    {[year |-> y, kind |-> k, repository |-> r, totalCount |-> n] :
        y \in ActivityYears, k \in 1..Len(Kinds), r \in ContribRepos, n \in TotalCounts}

\* The histories of n contributions: in the order of year and kind, and at
\* most one per year, kind and repository.
Activities(n) ==
    {a \in [1..n -> Contributions] :
        \A i, j \in 1..n :
            i < j => /\ a[i].year <= a[j].year
                     /\ a[i].year = a[j].year => a[i].kind <= a[j].kind
                     /\ ~( /\ a[i].year = a[j].year
                           /\ a[i].kind = a[j].kind
                           /\ a[i].repository = a[j].repository )}

\* The repositories handed to _contribution_inference.
SomeOriginalRepos ==
    {<<>>, <<Repo(1, "alice", FALSE, 1, 0), Repo(2, "alice", FALSE, 0, 0)>>}

InitContribCommon ==
    /\ Idle
    /\ NoSkill
    /\ pc = "contrib"
    /\ top_repo_n = 3
    /\ include_private \in BOOLEAN
    /\ token_login = "alice"
    /\ pages = <<>>
    /\ link_style = "prev_first"
    /\ server_statuses = {200}
    /\ url = NoUrl
    /\ is_search = FALSE
    /\ today = Now

\* The day counts: every calendar, little else.
InitDays ==
    /\ InitContribCommon
    /\ access_token \in {None, "ghp_token"}
    /\ created_at \in CreatedDates
    /\ calendar \in Calendars
    /\ activity \in Activities(0) \cup
                     {<<[year |-> 2024, kind |-> 1, totalCount |-> 2,
                         repository |-> ContribRepo("site", "alice", "User", FALSE)]>>}
    /\ \E rs \in SomeOriginalRepos :
          repository = repository_inference(rs, FALSE, username, top_repo_n)

SpecDays == InitDays /\ [][NextContrib]_vars

\* The repository counts: every history of contributions, little else.
InitContrib ==
    /\ InitContribCommon
    /\ access_token = "ghp_token"
    /\ created_at \in {DT(2023, 6, 1, 0), DT(2024, 2, 16, 12)}
    /\ calendar \in {c \in Calendars : \A i \in 1..Len(c) : c[i].contributionCount = 1}
    /\ \E n \in 0..MaxRecords : activity \in Activities(n)
    /\ repository = repository_inference(<<Repo(1, "alice", FALSE, 1, 0)>>, FALSE,
                                         username, top_repo_n)

SpecContrib == InitContrib /\ [][NextContrib]_vars

\* The weekly average: identities of every age, a fortnight among them, and
\* one day that holds all the contributions.
MaxWeeklyCount == 7

WeeklyCreatedDates ==
    {DT(2022, 12, 30, 10), DT(2023, 6, 1, 0), DT(2024, 2, 16, 12), DT(2024, 2, 19, 12),
     DT(2024, 2, 28, 18), DT(2024, 2, 29, 12)}

InitWeekly ==
    /\ InitContribCommon
    /\ access_token = "ghp_token"
    /\ created_at \in WeeklyCreatedDates
    /\ \E n \in 0..MaxWeeklyCount :
          calendar = <<[date |-> [y |-> 2024, m |-> 2, d |-> 29], contributionCount |-> n]>>
    /\ activity = <<>>
    /\ \E rs \in SomeOriginalRepos :
          repository = repository_inference(rs, FALSE, username, top_repo_n)

SpecWeekly == InitWeekly /\ [][NextContrib]_vars

(***************************************************************************)
(* Text, as _skill_inference reads it.  A token is a word or one of the    *)
(* things between words; "newline", "apostrophe", "mojibake", "url" and    *)
(* "entity" name what the pattern of re.sub names.                         *)
(***************************************************************************)
NonWords ==
    {" ", "-", "/", ",", ".", "(", ")", "[", "]", "<", ">", "###", "newline",
     "apostrophe", "mojibake", "url", "entity"}

\* \w
IsWord(tok) == tok \notin NonWords

\* str.lower(), token by token
Lower(tok) ==
    CASE tok = "I" -> "i"
      [] tok = "Python" -> "python"
      [] tok = "Machine" -> "machine"
      [] tok = "Learning" -> "learning"
      [] tok = "Jupyter Notebook" -> "jupyter notebook"
      [] OTHER -> tok

LowerAll(s) == [i \in 1..Len(s) |-> Lower(s[i])]

\* The first letter of a word in upper case, the others in lower case.
Capital(tok) ==
    CASE Lower(tok) = "i" -> "I"
      [] Lower(tok) = "python" -> "Python"
      [] Lower(tok) = "machine" -> "Machine"
      [] Lower(tok) = "learning" -> "Learning"
      [] Lower(tok) = "love" -> "Love"
      [] Lower(tok) = "and" -> "And"
      [] Lower(tok) = "data" -> "Data"
      [] OTHER -> tok

\* str.title()
Title(s) == [i \in 1..Len(s) |-> Capital(s[i])]

\* str.replace(a, b), a and b one token each
Replace(s, a, b) == [i \in 1..Len(s) |-> IF s[i] = a THEN b ELSE s[i]]

Range(s) == {s[i] : i \in 1..Len(s)}

\* The end of the match of opener .*? closer at the head of s, 0 when there
\* is none: the dot matches no newline.
SpanEnd(s, closers) ==
    IF \E i \in 2..Len(s) :
            s[i] \in closers /\ \A j \in 2..(i - 1) : s[j] # "newline"
    THEN CHOOSE i \in 2..Len(s) :
            /\ s[i] \in closers
            /\ \A j \in 2..(i - 1) : s[j] # "newline" /\ s[j] \notin closers
    ELSE 0

\* The end of the match of http[s]?://\S+ at the head of s.
RECURSIVE UrlEnd(_, _)
UrlEnd(s, i) ==
    IF i < Len(s) /\ s[i + 1] \notin {" ", "newline"} THEN UrlEnd(s, i + 1) ELSE i

\* re.sub(pattern, '', s) of lines 484 and 493: the alternatives are tried in
\* their order at every place.
RECURSIVE re_sub(_)
re_sub(s) ==
    IF s = <<>> THEN <<>>
    ELSE IF s[1] \in {"newline", "###", "apostrophe", "mojibake"} THEN re_sub(Tail(s))
    ELSE IF s[1] = "url" THEN re_sub(SubSeq(s, UrlEnd(s, 1) + 1, Len(s)))
    ELSE IF s[1] \in {"(", "["} /\ SpanEnd(s, {")", "]"}) # 0
         THEN re_sub(SubSeq(s, SpanEnd(s, {")", "]"}) + 1, Len(s)))
    ELSE IF s[1] = "<" /\ SpanEnd(s, {">"}) # 0
         THEN re_sub(SubSeq(s, SpanEnd(s, {">"}) + 1, Len(s)))
    ELSE IF s[1] = "entity" THEN re_sub(Tail(s))
    ELSE <<s[1]>> \o re_sub(Tail(s))

\* \b behind the first i tokens of text
Boundary(text, i) ==
    LET before == i >= 1 /\ IsWord(text[i])
        after  == i < Len(text) /\ IsWord(text[i + 1])
    IN  before # after

\* re.search(rf"\b{word}\b", text, re.IGNORECASE)
Search(word, text) ==
    \E i \in 1..(Len(text) - Len(word) + 1) :
        /\ LowerAll(SubSeq(text, i, i + Len(word) - 1)) = LowerAll(word)
        /\ Boundary(text, i - 1)
        /\ Boundary(text, i + Len(word) - 1)

(***************************************************************************)
(* _skill_inference: what it computes.                                     *)
(***************************************************************************)
\* Line 477
labels(keywords) == [i \in 1..Len(keywords) |-> LowerAll(keywords[i].label)]

\* Line 478
values(keywords) ==
    [i \in 1..Len(keywords) |-> LowerAll(Replace(keywords[i].value, "-", " "))]

\* Line 479
keywords_set(keywords) == Range(labels(keywords)) \cup Range(values(keywords))

\* Lines 484-485 and 493-494
text_keywords(text, keywords) ==
    {word \in keywords_set(keywords) : Search(word, LowerAll(re_sub(text)))}

\* The content member of the contents API is Base64; b64decode undoes it.
B64(s) == [b64 |-> s]

b64decode(c) == c.b64

\* Lines 481-503; key_qualifications is a list made of a set, in no order.
key_qualifications_of(bio_text, readme_data, keywords) ==
    LET profile_keywords ==
            (IF TruthyStr(bio_text) THEN text_keywords(bio_text.s, keywords) ELSE {})
            \cup (IF readme_data.has_content
                  THEN text_keywords(b64decode(readme_data.content), keywords)
                  ELSE {})
        keywords_from_values ==
            {Replace(Replace(word, " ", "-"), "/", "-") :
                word \in {v \in Range(values(keywords)) : v \in profile_keywords}}
        capitalized_profile_keywords == {Title(word) : word \in profile_keywords}
        keywords_from_labels ==
            {keywords[i].value :
                i \in {j \in 1..Len(keywords) :
                          Title(keywords[j].label) \in capitalized_profile_keywords}}
    IN  keywords_from_values \cup keywords_from_labels

\* key.replace(" ", "-").lower()
format_language(key) ==
    CASE key = "Jupyter Notebook" -> "jupyter-notebook"
      [] key = "Python" -> "python"
      [] OTHER -> key

\* Lines 510-512
RECURSIVE count_languages(_, _)
count_languages(count, keys) ==
    IF keys = <<>> THEN count
    ELSE count_languages(
            DictPut(count, format_language(keys[1]),
                    DictGet(count, format_language(keys[1]), 0) + 1),
            Tail(keys))

\* _username_token_check, lines 161-164
username_token_check_skipped(associated_username, login) == NoExc

username_token_check(associated_username, login) ==
    IF associated_username # login THEN Exc(MsgIdentity, 0, "") ELSE NoExc

\* Lines 202-206
user_repos_url(private) ==
    IF private THEN Url(EpUserRepos, 1) ELSE Url(EpUsersRepos, 1)

(***************************************************************************)
(* Upstream: what the profile, README, languages and taxonomy requests are *)
(* answered with.                                                          *)
(***************************************************************************)
EpReadme == "/repos/{username}/{username}/contents/README.md"
EpLanguages == "languages_url"
EpTaxonomy == "raw.githubusercontent.com/supertypeai/collective/main/src/data/profileTagsChoices.json"

MsgJSONDecode == "JSONDecodeError"

\* /user answers 401 to a request without credentials.
UserStatuses(token, known) == IF Truthy(token) THEN known ELSE {401}

\* The contents API answers 404 where there is no README.
ReadmeStatuses(known) == IF readme.is_none THEN {404} ELSE known

\* The JSON of the README response: the file with 200, an error message
\* otherwise.
ReadmeResponse(status) ==
    IF status = 200 /\ ~readme.is_none
    THEN [has_content |-> TRUE, content |-> B64(readme.s)]
    ELSE [has_content |-> FALSE, content |-> B64(<<>>)]

\* The taxonomy is served by another host: when it fails, its answer is
\* "404: Not Found", which is no JSON.
TaxonomyStatuses(known) == IF known = {200} THEN {200} ELSE {200, 404}

\* The languages of a repository: those of an odd-numbered one are a
\* notebook language and Python, an even-numbered one holds no code.
Languages(r) == IF r.name % 2 = 1 THEN <<"Jupyter Notebook", "Python">> ELSE <<>>

\* r["language"]
Language(r) == IF r.name % 2 = 1 THEN "Jupyter Notebook" ELSE None

\* Lines 516-519
RECURSIVE count_primary(_, _)
count_primary(count, repos) ==
    IF repos = <<>> THEN count
    ELSE count_primary(
            IF Truthy(Language(repos[1]))
            THEN DictPut(count, format_language(Language(repos[1])),
                         DictGet(count, format_language(Language(repos[1])), 0) + 1)
            ELSE count,
            Tail(repos))

(***************************************************************************)
(* perform_inference.  One action per request that is not already an       *)
(* action of the paginator or of _contribution_inference, one for the      *)
(* return of _skill_inference and one for the assignment to inference.     *)
(***************************************************************************)
\* Lines 540 and 173-189.
ProfileRequest ==
    /\ pc = "idle"
    /\ \E status \in server_statuses :
          LET outcome == request_outcome(status, access_token, TRUE)
          IN  /\ requests' = Append(requests,
                    Logged("GET", Url(EpProfile, 1), access_token, status, TRUE, FALSE,
                           NoBody, outcome))
              /\ IF outcome # NoExc
                 THEN /\ Raise(outcome)
                      /\ profile' = profile
                 ELSE /\ profile' = [returned |-> TRUE,
                                     data |-> [login |-> username, bio |-> bio],
                                     created_at |-> created_at]
                      /\ pc' = "repository"
                      /\ exc' = exc
    /\ UNCHANGED <<object, arguments, upstream, paging, repository, contrib,
                   key_qualifications, lang_index, languages_count, skill>>

item_list_carried_over == item_list

\* item_list = [], line 101: a list of the call, not of the object.
empty_item_list == <<>>

\* Lines 101-105: the call of _multipage_request with the URL u.
MultipageBegin(u) ==
    /\ url' = u
    /\ item_list' = empty_item_list
    /\ incomplete_results' = FALSE
    /\ is_search' = InSearch(u)
    /\ pc' = "paging"
    /\ UNCHANGED <<exc, response, total_count>>

\* Lines 202-208: _repository_inference up to its _multipage_request call.
RepositoryBegin ==
    /\ pc = "repository"
    /\ IF include_private
       THEN \E status \in UserStatuses(access_token, server_statuses) :
               LET outcome == request_outcome(status, access_token, TRUE)
                   check   == IF outcome # NoExc THEN outcome
                              ELSE username_token_check(token_login, username)
               IN  /\ requests' = Append(requests,
                         Logged("GET", Url(EpUser, 1), access_token, status, TRUE,
                                FALSE, NoBody, outcome))
                   /\ IF check # NoExc
                      THEN /\ Raise(check)
                           /\ UNCHANGED paging
                      ELSE MultipageBegin(user_repos_url(TRUE))
       ELSE /\ requests' = requests
            /\ MultipageBegin(user_repos_url(FALSE))
    /\ UNCHANGED <<object, arguments, upstream, skills, repository, contrib>>

\* Lines 474-475: the taxonomy is fetched with requests.get, past _request.
SkillTaxonomy ==
    /\ pc = "repo_done"
    /\ \E status \in TaxonomyStatuses(server_statuses) :
          /\ requests' = Append(requests,
                Logged("GET", Url(EpTaxonomy, 1), None, status, FALSE, FALSE, NoBody,
                       NoExc))
          /\ IF status # 200
             THEN Raise(Exc(MsgJSONDecode, 0, ""))
             ELSE pc' = "skill_readme" /\ exc' = exc
    /\ UNCHANGED <<object, arguments, upstream, skills, paging, repository, contrib>>

\* Lines 477-505.
SkillReadme ==
    /\ pc = "skill_readme"
    /\ \E status \in ReadmeStatuses(server_statuses) :
          LET outcome     == request_outcome(status, access_token, FALSE)
              readme_data == ReadmeResponse(status)
          IN  /\ requests' = Append(requests,
                    Logged("GET", Url(EpReadme, 1), access_token, status, FALSE, FALSE,
                           NoBody, outcome))
              /\ IF outcome # NoExc
                 THEN /\ Raise(outcome)
                      /\ UNCHANGED <<key_qualifications, lang_index, languages_count>>
                 ELSE /\ key_qualifications' =
                            key_qualifications_of(profile.data.bio, readme_data, taxonomy)
                      /\ languages_count' = <<>>
                      /\ lang_index' = 1
                      /\ pc' = "skill_lang"
                      /\ exc' = exc
    /\ UNCHANGED <<object, arguments, upstream, paging, repository, contrib, profile,
                   skill>>

\* Lines 507-512: one pass of the loop over original_repos.
SkillLanguageRequest ==
    /\ pc = "skill_lang"
    /\ Truthy(access_token)
    /\ lang_index <= Len(repository.original_repos)
    /\ \E status \in server_statuses :
          LET outcome == request_outcome(status, access_token, TRUE)
              r       == repository.original_repos[lang_index]
          IN  /\ requests' = Append(requests,
                    Logged("GET", Url(EpLanguages, r.name), access_token, status, TRUE,
                           FALSE, NoBody, outcome))
              /\ IF outcome # NoExc
                 THEN /\ Raise(outcome)
                      /\ UNCHANGED <<lang_index, languages_count>>
                 ELSE /\ languages_count' = count_languages(languages_count, Languages(r))
                      /\ lang_index' = lang_index + 1
                      /\ UNCHANGED <<pc, exc>>
    /\ UNCHANGED <<object, arguments, upstream, paging, repository, contrib, profile,
                   key_qualifications, skill>>

\* sorted(languages_count, key=languages_count.get, reverse=True)
sorted_languages(count) ==
    LET items == SortedReverse(Keyed(count, value_of))
    IN  [i \in 1..Len(items) |-> items[i].k]

\* Line 514, the shares in thousandths.
languages_percentage(count, n) ==
    LET items == SortedReverse(Keyed(count, value_of))
    IN  [i \in 1..Len(items) |-> [k |-> items[i].k, v |-> RoundDiv(items[i].v * 1000, n)]]

\* Lines 513-530.
SkillReturn ==
    /\ pc = "skill_lang"
    /\ ~Truthy(access_token) \/ lang_index > Len(repository.original_repos)
    /\ languages_count' =
          IF Truthy(access_token) THEN languages_count
          ELSE count_primary(<<>>, repository.original_repos)
    /\ skill' =
          [returned |-> TRUE,
           inference_from_originalrepo_count |-> Len(repository.original_repos),
           key_qualifications |-> key_qualifications,
           top_n_languages |-> SliceTo(sorted_languages(languages_count'), top_language_n),
           languages_percentage |->
               IF Truthy(access_token)
               THEN [is_none |-> FALSE,
                     items |-> languages_percentage(languages_count',
                                                    Len(repository.original_repos))]
               ELSE [is_none |-> TRUE, items |-> <<>>]]
    /\ pc' = "contrib"
    /\ UNCHANGED <<object, arguments, upstream, paging, repository, contrib, exc,
                   requests, profile, key_qualifications, lang_index>>

\* Lines 545-551.
StoreInference ==
    /\ pc = "contrib_done"
    /\ inference' = [stored |-> TRUE, profile |-> profile.data, skill |-> skill,
                     stats |-> repository.stats, contribution |-> contribution]
    /\ pc' = "done"
    /\ UNCHANGED <<username, access_token, arguments, upstream, skills, paging,
                   repository, contrib, exc, requests>>

(***************************************************************************)
(* The inputs of a perform_inference run.                                  *)
(***************************************************************************)
\* The repositories of the identity, on one page and on two.
RunChains ==
    {<<Page(<<Repo(1, "alice", FALSE, 1, 0), Repo(2, "alice", TRUE, 0, 1)>>, <<1, 0>>, 2)>>,
     <<Page(<<Repo(1, "alice", FALSE, 0, 0)>>, <<1, 0>>, 2),
       Page(<<Repo(2, "octo-org", FALSE, 1, 1)>>, <<1, 0>>, 2)>>}

RunCalendar ==
    CHOOSE c \in Calendars : \A i \in 1..Len(c) : c[i].contributionCount = 1

RunActivity ==
    <<[year |-> 2023, kind |-> 1, totalCount |-> 2,
       repository |-> ContribRepo("site", "alice", "User", FALSE)],
      [year |-> 2024, kind |-> 3, totalCount |-> 1,
       repository |-> ContribRepo("vault", "octo-org", "Organization", TRUE)]>>

RunTaxonomy ==
    <<[label |-> <<"Machine", " ", "Learning">>, value |-> <<"machine", "-", "learning">>],
      [label |-> <<"Python">>, value |-> <<"python">>]>>

RunBios ==
    {NoneStr,
     Str(<<"I", " ", "love", " ", "machine", "-", "learning", " ", "and", " ", "Python">>)}

RunReadmes ==
    {NoneStr,
     Str(<<"###", " ", "Machine", " ", "Learning", "newline", "[", "python", "]", "(",
           "url", ")">>)}

Init ==
    /\ Idle
    /\ pc = "idle"
    /\ access_token \in {None, "ghp_token"}
    /\ top_repo_n = 3
    /\ top_language_n = 3
    /\ include_private \in BOOLEAN
    /\ token_login \in {"alice", "bob"}
    /\ pages \in RunChains
    /\ link_style \in LinkStyles
    /\ server_statuses \in {{200}, Statuses}
    /\ url = NoUrl
    /\ is_search = FALSE
    /\ repository = NoRepository
    /\ created_at \in {DT(2023, 6, 1, 0), DT(2024, 2, 28, 18)}
    /\ today = Now
    /\ calendar = RunCalendar
    /\ activity = RunActivity
    /\ bio \in RunBios
    /\ readme \in RunReadmes
    /\ taxonomy = RunTaxonomy
    /\ profile = NoProfile
    /\ key_qualifications = {}
    /\ lang_index = 0
    /\ languages_count = <<>>
    /\ skill = NoSkillResult

Next ==
    \/ ProfileRequest
    \/ RepositoryBegin
    \/ MultipageFetch
    \/ MultipageReturn
    \/ RepositoryAggregate
    \/ SkillTaxonomy
    \/ SkillReadme
    \/ SkillLanguageRequest
    \/ SkillReturn
    \/ ContribBegin
    \/ ContribDayRequest
    \/ ContribRepoRequest
    \/ ContribAggregate
    \/ ContribTopRequest
    \/ ContribReturn
    \/ StoreInference

Spec == Init /\ [][Next]_vars

(***************************************************************************)
(* perform_inference called again and again on one object, the upstream    *)
(* and the clock standing still.                                           *)
(***************************************************************************)
MaxRuns == 2

\* The calls made so far: each begins with the profile request.
Runs == Cardinality({i \in 1..Len(requests) : requests[i].url = Url(EpProfile, 1)})

\* The next call, with the arguments of the last, after a call has returned
\* or raised.
PerformInference ==
    /\ pc \in {"done", "raised"}
    /\ Runs < MaxRuns
    /\ pc' = "idle"
    /\ exc' = NoExc
    /\ UNCHANGED <<object, arguments, upstream, skills, paging, repository, contrib,
                   requests>>

InitRuns ==
    /\ Init
    /\ server_statuses = {200}

NextRuns ==
    \/ PerformInference
    \/ ProfileRequest
    \/ RepositoryBegin
    \/ MultipageFetch
    \/ MultipageReturn
    \/ RepositoryAggregate
    \/ SkillTaxonomy
    \/ SkillReadme
    \/ SkillLanguageRequest
    \/ SkillReturn
    \/ ContribBegin
    \/ ContribDayRequest
    \/ ContribRepoRequest
    \/ ContribAggregate
    \/ ContribTopRequest
    \/ ContribReturn
    \/ StoreInference

SpecRuns == InitRuns /\ [][NextRuns]_vars

(***************************************************************************)
(* _skill_inference on its own: every bio and README made of two terms, a  *)
(* taxonomy entry in each of its spellings among them.                     *)
(***************************************************************************)
SkillTerms ==
    {<<"machine", "-", "learning">>, <<"Machine", " ", "Learning">>,
     <<"machine", " ", "learning">>, <<"Python">>, <<"python">>,
     <<"[", "python", "]">>, <<"data">>}

SkillTexts ==
    {<<"I", " ", "love", " ">> \o a \o <<" ", "and", " ">> \o b : a, b \in SkillTerms}

SkillBios == {NoneStr, Str(<<>>)} \cup {Str(t) : t \in SkillTexts}

SkillReadmes ==
    {NoneStr,
     Str(<<"###", " ", "Machine", " ", "Learning", "newline", "(", "url", ")">>),
     Str(<<"<", "b", ">", "python", "<", "/", "b", ">", " ", "machine", "-", "learning">>)}

InitSkill ==
    /\ Idle
    /\ NoHistory
    /\ pc = "repo_done"
    /\ access_token \in {None, "ghp_token"}
    /\ top_repo_n = 3
    /\ top_language_n = 3
    /\ include_private = FALSE
    /\ token_login = "alice"
    /\ pages = <<>>
    /\ link_style = "prev_first"
    /\ server_statuses = {200}
    /\ url = NoUrl
    /\ is_search = FALSE
    /\ repository = repository_inference(
                        <<Repo(1, "alice", FALSE, 1, 0), Repo(2, "alice", FALSE, 0, 0)>>,
                        FALSE, username, top_repo_n)
    /\ bio \in SkillBios
    /\ readme \in SkillReadmes
    /\ taxonomy = RunTaxonomy
    /\ profile = [returned |-> TRUE, data |-> [login |-> username, bio |-> bio],
                  created_at |-> created_at]
    /\ key_qualifications = {}
    /\ lang_index = 0
    /\ languages_count = <<>>
    /\ skill = NoSkillResult

NextSkill ==
    \/ SkillTaxonomy
    \/ SkillReadme
    \/ SkillLanguageRequest
    \/ SkillReturn

SpecSkill == InitSkill /\ [][NextSkill]_vars

(***************************************************************************)
(* Claims about the error mapping (SpecApi).                               *)
(***************************************************************************)
\* The outcome the error taxonomy gives a status, with or without a token.
Taxonomy(status, with_token) ==
    CASE status = 401 -> IF with_token THEN Exc(MsgInvalidToken, 0, "")
                                       ELSE Exc(MsgTokenRequired, 0, "")
      [] status = 403 -> IF with_token THEN Exc(MsgRateLimitToken, 0, "")
                                       ELSE Exc(MsgRateLimitNoToken, 0, "")
      [] status = 404 -> Exc(MsgNotFound, 0, "")
      [] OTHER        -> Exc(MsgStatus, status, "")

\* C3: _error_handling gives every response one outcome, fixed by the status
\* and by whether a token was supplied (a non-empty access_token): 200 on a
\* REST call returns; 401 raises "token required" without a token and
\* "invalid token" with one; 403 raises one of two different rate-limit
\* messages; 404 raises "data unavailable"; any other status raises an error
\* carrying the status code.
C3_ErrorMapping ==
    /\ MsgRateLimitToken # MsgRateLimitNoToken
    /\ \A i \in 1..Len(requests) :
          LET r == requests[i]
          IN  r.handled =>
                /\ (r.status = 200 /\ ~r.graphql) => r.outcome = NoExc
                /\ r.status # 200 => r.outcome = Taxonomy(r.status, Truthy(access_token))
                /\ r.status \notin {200, 401, 403, 404} => r.outcome.code = r.status

C3_Witness ==
    /\ Len(requests) = 2
    /\ access_token = ""
    /\ requests[1].handled /\ requests[1].status = 401
    /\ requests[1].outcome.msg = MsgTokenRequired
    /\ requests[2].handled /\ requests[2].status = 500
    /\ requests[2].outcome.code = 500

\* C4: a GraphQL response with status 200 and a non-empty errors array always
\* makes _graphql_request raise the GraphQL error, whatever the first error's
\* message is, and a 200 GraphQL response with no errors member never raises.
C4_GraphqlErrorsRaise ==
    \A i \in 1..Len(requests) :
        LET r == requests[i]
        IN  (r.graphql /\ r.status = 200) =>
              /\ (r.body.has_errors /\ r.body.errors # <<>>) => r.outcome.msg = MsgGraphQL
              /\ ~r.body.has_errors => r.outcome = NoExc

(***************************************************************************)
(* Claims about the paginator (SpecPages).                                 *)
(***************************************************************************)
\* Whether the response carrying page k has a rel="next" link.
HasNextLink(k) ==
    Find(Headers(EpUsersRepos, k, Len(pages), link_style, pages[k].remaining).Link,
         RelNext) # 0

RECURSIVE ItemsUpTo(_)
ItemsUpTo(k) == IF k = 0 THEN <<>> ELSE ItemsUpTo(k - 1) \o pages[k].items

\* The pages the requests of the log fetched, in order (0: the URL named none).
FetchedPages == [i \in 1..Len(requests) |-> PageOf(requests[i].url, Len(pages))]

RECURSIVE ItemsOf(_)
ItemsOf(ks) ==
    IF ks = <<>> THEN <<>>
    ELSE ItemsOf(SubSeq(ks, 1, Len(ks) - 1)) \o
         (IF ks[Len(ks)] = 0 THEN <<>> ELSE pages[ks[Len(ks)]].items)

Returned == pc = "paged"
Ended == pc \in {"paged", "raised"}

\* C1: for a chain of N >= 1 pages in which every page but the last carries a
\* rel="next" link and no page with a next link reports X-Ratelimit-Remaining
\* 0, _multipage_request issues exactly one request per page, in page order,
\* and returns all pages' items in page order with incomplete_results false.
C1_WalksWholeChain ==
    ( /\ Ended
      /\ \A k \in 1..Len(pages) : (k < Len(pages)) = HasNextLink(k)
      /\ \A k \in 1..Len(pages) : HasNextLink(k) => PyInt(pages[k].remaining) # 0 )
    => /\ Returned
       /\ Len(requests) = Len(pages)
       /\ \A k \in 1..Len(pages) : PageOf(requests[k].url, Len(pages)) = k
       /\ item_list = ItemsUpTo(Len(pages))
       /\ incomplete_results = FALSE

\* C2: when a fetched page still has a next link and reports
\* X-Ratelimit-Remaining 0, the iteration stops at that page without raising:
\* that page's request is the last one issued, the items of the pages fetched
\* so far are what is returned, and incomplete_results is true; it is true in
\* no other case.
C2_RateLimitStop ==
    LET n    == Len(requests)
        last == IF n = 0 THEN 0 ELSE FetchedPages[n]
        hit  == last # 0 /\ HasNextLink(last) /\ PyInt(pages[last].remaining) = 0
    IN  /\ incomplete_results = hit
        /\ hit => /\ pc \in {"paging", "paged"}
                  /\ exc = NoExc
                  /\ url = NoUrl
                  /\ item_list = ItemsOf(FetchedPages)
        /\ Returned => item_list = ItemsOf(FetchedPages)

C2_Witness ==
    /\ Returned
    /\ incomplete_results
    /\ Len(pages) = 3
    /\ Len(requests) = 2
    /\ Len(item_list) = 3

(***************************************************************************)
(* Claims about the repository aggregation (SpecRepo).  item_list is the   *)
(* fetched list, in fetch order; its repositories are named by their place *)
(* in it.                                                                  *)
(***************************************************************************)
Aggregated == pc = "repo_done"

Names(s) == {s[i].name : i \in 1..Len(s)}

Owned == {i \in 1..Len(item_list) : item_list[i].owner_login = username}

\* C7: original_repos holds exactly the fetched repositories with owner login
\* = username and fork = false, forked_repo_count counts exactly those with
\* owner login = username and fork = true; so the two counts add up to the
\* number of fetched repositories the identity owns, and a repository it does
\* not own is in neither.
C7_Partition ==
    Aggregated =>
        LET originals == {i \in Owned : item_list[i].fork = FALSE}
            forks     == {i \in Owned : item_list[i].fork = TRUE}
            st        == repository.stats
        IN  /\ \A j \in 1..Len(repository.original_repos) :
                  \E i \in originals : repository.original_repos[j] = item_list[i]
            /\ Names(repository.original_repos) = {item_list[i].name : i \in originals}
            /\ Len(repository.original_repos) = Cardinality(originals)
            /\ st.original_repo_count = Cardinality(originals)
            /\ st.forked_repo_count = Cardinality(forks)
            /\ st.original_repo_count + st.forked_repo_count = Cardinality(Owned)

C7_Witness ==
    /\ Aggregated
    /\ Len(item_list) = 3
    /\ Cardinality(Owned) = 2
    /\ repository.stats.original_repo_count = 1
    /\ repository.stats.forked_repo_count = 1
    /\ \E i \in 1..3 : item_list[i].owner_login # username /\ item_list[i].fork = FALSE

\* s is in non-increasing order of stars + forks, and entries with equal
\* stars + forks are in fetch order.
StableDescending(s) ==
    \A i, j \in 1..Len(s) :
        i < j => \/ popularity(s[i]) > popularity(s[j])
                 \/ popularity(s[i]) = popularity(s[j]) /\ s[i].name < s[j].name

\* C8: after the sort the repositories are in non-increasing order of
\* stargazers_count + forks_count and equal ones keep their fetch order; the
\* same holds for original_repos and for top_repo_stars_forks, which is the
\* first top_repo_n entries of original_repos.
C8_StableSort ==
    Aggregated =>
        LET top == repository.stats.top_repo_stars_forks
        IN  /\ Len(repository.repos) = Len(item_list)
            /\ \A i \in 1..Len(item_list) :
                  \E j \in 1..Len(item_list) : repository.repos[j] = item_list[i]
            /\ StableDescending(repository.repos)
            /\ StableDescending(repository.original_repos)
            /\ StableDescending(top)
            /\ top_repo_n >= 0 =>
                  /\ Len(top) = IF top_repo_n < Len(repository.original_repos)
                                THEN top_repo_n ELSE Len(repository.original_repos)
            /\ Len(top) <= Len(repository.original_repos)
            /\ \A i \in 1..Len(top) : top[i] = popular_repo(repository.original_repos[i])

C8_Witness ==
    /\ Aggregated
    /\ Len(item_list) = 3
    /\ top_repo_n = 2
    /\ Len(repository.stats.top_repo_stars_forks) = 2
    /\ repository.original_repos[1].name = 2
    /\ repository.original_repos[2].name = 3
    /\ repository.original_repos[3].name = 1
    /\ popularity(item_list[2]) = popularity(item_list[3])

(***************************************************************************)
(* Claims about the contribution aggregation (SpecContrib, SpecDays).      *)
(***************************************************************************)
ContributionReturned == contribution.returned /\ ~contribution.none

\* The contribution records the run counts: those of the years it queries,
\* without the private ones unless include_private.
Counted ==
    {i \in 1..Len(activity) :
        /\ activity[i].year \in created_at.y..today.y
        /\ include_private \/ ~activity[i].repository.isPrivate}

RECURSIVE SumCounts(_)
SumCounts(S) ==
    IF S = {} THEN 0
    ELSE LET i == CHOOSE i \in S : TRUE
         IN  activity[i].totalCount + SumCounts(S \ {i})

\* C9: contribution_count_per_other_repo holds each repository URL at most
\* once: the counted records of a repository the identity does not own, of
\* any kinds and years, make one entry whose contributions_count is the sum
\* of their counts, and records with different URLs, also of the same
\* repository name, make different entries.
C9_OtherRepoByUrl ==
    ContributionReturned =>
        LET other  == contribution.contribution_count_per_other_repo
            others == {i \in Counted : activity[i].repository.owner # username}
            urls   == {activity[i].repository.url : i \in others}
        IN  /\ \A i, j \in 1..Len(other) : i # j => other[i].html_url # other[j].html_url
            /\ {other[i].html_url : i \in 1..Len(other)} = urls
            /\ \A i \in 1..Len(other) :
                  LET same == {k \in others : activity[k].repository.url = other[i].html_url}
                  IN  /\ other[i].contributions_count = SumCounts(same)
                      /\ \A k \in same : activity[k].repository.name = other[i].name

C9_Witness ==
    /\ ContributionReturned
    /\ Len(activity) = 2
    /\ Counted = {1, 2}
    /\ activity[1].repository = activity[2].repository
    /\ activity[1].year # activity[2].year
    /\ activity[1].kind # activity[2].kind
    /\ activity[1].repository.owner # username
    /\ Len(contribution.contribution_count_per_other_repo) = 1
    /\ contribution.contribution_count_per_other_repo[1].contributions_count = 3

\* Two repositories of one name and different URLs, kept apart.
C9_SameNameApart ==
    /\ ContributionReturned
    /\ Len(contribution.contribution_count_per_other_repo) = 2
    /\ contribution.contribution_count_per_other_repo[1].name =
       contribution.contribution_count_per_other_repo[2].name

RECURSIVE SumAllTime(_)
SumAllTime(d) == IF d = <<>> THEN 0 ELSE d[1].v[2] + SumAllTime(Tail(d))

\* C10: the all-time counts of the day-of-week buckets add up to
\* contribution_count, and so do the all-time counts of the month buckets.
C10_BucketsSumToTotal ==
    ContributionReturned =>
        /\ SumAllTime(contribution.contribution_count_per_day) = contribution.contribution_count
        /\ SumAllTime(contribution.contribution_count_per_month) = contribution.contribution_count

C10_Witness ==
    /\ ContributionReturned
    /\ contribution.contribution_count = 5
    /\ Len(requests) >= 6
    /\ Len(contribution.contribution_count_per_day) = 4
    /\ Len(contribution.contribution_count_per_month) = 4
    /\ \E i \in 1..4 : contribution.contribution_count_per_day[i].v = <<2, 2>>
    /\ \E i \in 1..4 : contribution.contribution_count_per_month[i].v = <<1, 2>>

(***************************************************************************)
(* Claims about the perform_inference run (Spec).                          *)
(***************************************************************************)
\* The endpoints of the GitHub API; the taxonomy is served by another host.
ApiEndpoints ==
    {EpProfile, EpUser, EpUserRepos, EpUsersRepos, EpSearch, EpGraphql, EpReadme,
     EpLanguages, EpContributors}

IsApiCall(r) == \E i \in 1..Len(r.url) : r.url[i].endpoint \in ApiEndpoints

IsReadmeCall(r) == r.url = Url(EpReadme, 1)

Non2xx(r) == r.status \notin 200..299

\* The mapping was evaluated on the response of request r: the call ended
\* the way _error_handling ends for that response.
Mapped(r) == r.outcome = error_handling(r.status, access_token, r.graphql, r.body)

\* Request i ended the run: the run raised the mapping's exception at it,
\* no request follows it, and nothing is stored.
TerminalAt(i) ==
    /\ i = Len(requests)
    /\ pc = "raised"
    /\ exc # NoExc
    /\ exc = error_handling(requests[i].status, access_token, requests[i].graphql,
                            requests[i].body)
    /\ inference = NoInference

\* C5, as stated: the error mapping is evaluated on every GitHub API call of
\* a perform_inference run, and every response that is not 2xx ends the run
\* at that call: the run raises, no request follows (no retry either), and
\* no result is stored in inference.
C5_EveryCallTerminal ==
    \A i \in 1..Len(requests) :
        IsApiCall(requests[i]) =>
            /\ Mapped(requests[i])
            /\ Non2xx(requests[i]) => TerminalAt(i)

\* C5, amended: the above holds of every GitHub API call but the request
\* for the profile README, which is sent with error_handling=False: its
\* response is never mapped, and the run goes on whatever its status is.
C5_EveryCallButReadmeTerminal ==
    \A i \in 1..Len(requests) :
        IsApiCall(requests[i]) =>
            IF IsReadmeCall(requests[i])
            THEN /\ ~requests[i].handled
                 /\ requests[i].outcome = NoExc
                 /\ i = Len(requests) => pc # "raised" /\ exc = NoExc
            ELSE /\ requests[i].handled
                 /\ Mapped(requests[i])
                 /\ Non2xx(requests[i]) => TerminalAt(i)

\* A run that went past a README response of 404 and was ended by a GraphQL
\* response of 403.
C5_Witness ==
    /\ pc = "raised"
    /\ \E i \in 1..Len(requests) : IsReadmeCall(requests[i]) /\ requests[i].status = 404
    /\ requests[Len(requests)].url[1].endpoint = EpGraphql
    /\ requests[Len(requests)].status = 403
    /\ exc = Exc(MsgRateLimitToken, 0, "")
    /\ inference = NoInference

IsListingCall(r) ==
    \E i \in 1..Len(r.url) : r.url[i].endpoint \in {EpUserRepos, EpUsersRepos}

IsUserCall(r) == r.url = Url(EpUser, 1)

\* C6: in a run with include_private, a repository-listing request is sent
\* only after a /user request was answered and the login it named is the
\* requested username, and then it goes to the authenticated-user endpoint;
\* when /user names another login the run ends with the identity-mismatch
\* error and has sent no listing request.
C6_IdentityBeforeListing ==
    include_private =>
        /\ \A i \in 1..Len(requests) :
              IsListingCall(requests[i]) =>
                  /\ \E j \in 1..(i - 1) :
                        IsUserCall(requests[j]) /\ requests[j].outcome = NoExc
                  /\ token_login = username
                  /\ requests[i].url[1].endpoint = EpUserRepos
        /\ \A j \in 1..Len(requests) :
              /\ IsUserCall(requests[j])
              /\ requests[j].outcome = NoExc
              /\ token_login # username
              => /\ pc = "raised"
                 /\ exc = Exc(MsgIdentity, 0, "")
                 /\ j = Len(requests)
                 /\ \A i \in 1..Len(requests) : ~IsListingCall(requests[i])

\* A run with include_private that listed two pages of the authenticated
\* user and stored its result.
C6_Witness ==
    /\ include_private
    /\ pc = "done"
    /\ Cardinality({i \in 1..Len(requests) : IsListingCall(requests[i])}) = 2
    /\ IsUserCall(requests[2])

\* A run with include_private that ended with the identity-mismatch error.
C6_MismatchRaised ==
    /\ include_private
    /\ token_login # username
    /\ pc = "raised"
    /\ exc = Exc(MsgIdentity, 0, "")
    /\ IsUserCall(requests[Len(requests)])

(***************************************************************************)
(* Claims about the weekly average (SpecWeekly).                           *)
(***************************************************************************)
Abs(x) == IF x < 0 THEN -x ELSE x

\* (today - created_date).days
DaysSinceCreation == DaysBetween(today, created_at)

\* w is one of the integers nearest to x / y.
Nearest(w, x, y) == 2 * Abs(w * y - x) <= y

\* The numbers of weeks that are days / 7 rounded.
RoundedWeeks == {weeks \in 0..(DaysSinceCreation + 1) : Nearest(weeks, DaysSinceCreation, 7)}

\* C11, as stated: weekly_average_contribution (held in thousandths) is the
\* total of the contributions divided by round(days since creation / 7),
\* and it is 3.5 for 7 contributions of an identity created 14 days ago.
C11_WeeklyAverageIsQuotient ==
    ContributionReturned =>
        /\ \E weeks \in RoundedWeeks :
              contribution.weekly_average_contribution * weeks =
                  contribution.contribution_count * 1000
        /\ DaysSinceCreation = 14 /\ contribution.contribution_count = 7
           => contribution.weekly_average_contribution = 3500

\* C11, amended: weekly_average_contribution is that quotient rounded to
\* three decimal places, and it is 3.5 in the case of 14 days and 7
\* contributions.
C11_WeeklyAverageIsRoundedQuotient ==
    ContributionReturned =>
        /\ \E weeks \in RoundedWeeks :
              Nearest(contribution.weekly_average_contribution,
                      contribution.contribution_count * 1000, weeks)
        /\ DaysSinceCreation = 14 /\ contribution.contribution_count = 7
           => contribution.weekly_average_contribution = 3500

\* 7 contributions of an identity created 14 days ago: 3.5.
C11_Witness ==
    /\ ContributionReturned
    /\ DaysSinceCreation = 14
    /\ contribution.contribution_count = 7
    /\ contribution.weekly_average_contribution = 3500

\* A quotient that three decimal places do not hold: 7 / 39 is 0.179.
C11_RoundedAverage ==
    /\ ContributionReturned
    /\ RoundedWeeks = {39}
    /\ contribution.contribution_count = 7
    /\ contribution.weekly_average_contribution = 179

\* C12: for an identity so young that round(days since creation / 7) is
\* zero, _contribution_inference does not fail: it is not ended by the
\* division of line 433.
C12_YoungIdentityCompletes ==
    /\ 0 \in RoundedWeeks => pc # "raised"
    /\ exc # Exc(MsgZeroDivision, 0, "")

(***************************************************************************)
(* Claims about the key qualifications (SpecSkill).                        *)
(***************************************************************************)
\* The texts the skill was inferred from, normalized: the bio when there is
\* one, the README when the contents request was answered with it.
InferredFrom ==
    (IF TruthyStr(bio) THEN {LowerAll(re_sub(bio.s))} ELSE {})
    \cup (IF /\ ~readme.is_none
              /\ \E i \in 1..Len(requests) :
                    IsReadmeCall(requests[i]) /\ requests[i].status = 200
           THEN {LowerAll(re_sub(readme.s))}
           ELSE {})

\* The text holds the label of the entry or its value, the slug, as a whole
\* word, whatever the case.
Mentions(text, entry) == Search(entry.label, text) \/ Search(entry.value, text)

ExampleBio ==
    Str(<<"I", " ", "love", " ", "machine", "-", "learning", " ", "and", " ", "Python">>)

\* C13: key_qualifications holds the value of every taxonomy entry whose
\* label or slug the normalized bio or README holds as a whole word, and
\* for the bio "I love machine-learning and Python" without a README it is
\* exactly {"machine-learning", "python"}.
C13_LabelOrSlugMatches ==
    skill.returned =>
        /\ \A i \in 1..Len(taxonomy), text \in InferredFrom :
              Mentions(text, taxonomy[i]) => taxonomy[i].value \in skill.key_qualifications
        /\ bio = ExampleBio /\ readme.is_none
           => skill.key_qualifications = {<<"machine", "-", "learning">>, <<"python">>}

\* What the code yields for the example: the slug in the bio goes unseen.
C13_ExampleYieldsPython ==
    /\ skill.returned
    /\ bio = ExampleBio
    /\ readme.is_none
    /\ skill.key_qualifications = {<<"python">>}

(***************************************************************************)
(* Claims about repeated runs (SpecRuns).                                  *)
(***************************************************************************)
\* C14: a call that stores its output over the output of an earlier call
\* stores the same output; so every successful call on the object stores
\* what the first one did, and nothing adds up from call to call.
C14_CallsStoreTheSame ==
    [][inference.stored => inference' = inference]_vars

\* The second call has stored its output, made of two repositories and of
\* contributions.
C14_Witness ==
    /\ Runs = 2
    /\ pc = "done"
    /\ inference.stored
    /\ inference.stats.inference_from_repo_count = 2
    /\ inference.stats.original_repo_count = 1
    /\ ~inference.contribution.none
    /\ inference.contribution.contribution_count > 0

(***************************************************************************)
(* Claims about the year windows (SpecWeekly).                             *)
(***************************************************************************)
\* The years of the GraphQL requests sent so far, in their order.
QueriedYears ==
    LET sent == SelectSeq(requests, LAMBDA r : r.url[1].endpoint = EpGraphql)
    IN  [i \in 1..Len(sent) |-> sent[i].url[1].page]

\* The loop over the years is over.
WindowsDone == pc \in {"contrib_sum", "contrib_top", "contrib_done"}

\* The day d lies in the window w.
InWindow(d, w) == Ordinal(w.from) <= d /\ d <= Ordinal(w.to)

\* Every year from the year of creation to the current one is queried, each
\* with its two requests, in ascending order.
YearsAscending ==
    /\ \A i \in 1..Len(QueriedYears) :
          QueriedYears[i] = created_at.y + ((i - 1) \div 2)
    /\ WindowsDone => Len(QueriedYears) = 2 * (today.y - created_at.y + 1)

\* Every day from the creation to the current time lies in exactly one of
\* the windows queried.
DaysCoveredOnce ==
    WindowsDone =>
        \A d \in Ordinal(created_at)..Ordinal(today) :
            Cardinality({y \in Range(QueriedYears) :
                            InWindow(d, window(y, created_at, today))}) = 1

\* No window queried ends later than the current time.
NoWindowEndsLate ==
    \A y \in Range(QueriedYears) :
        Hours(window(y, created_at, today).to) <= Hours(today)

\* C15: the windows queried are one for each calendar year from the year of
\* creation through the current year, ascending; every day from the
\* creation to the current time lies in exactly one of them; none ends
\* later than the current time.
C15_WindowsCoverSpan ==
    /\ YearsAscending
    /\ DaysCoveredOnce
    /\ NoWindowEndsLate

\* What holds of the windows: all of C15 but the end of the last window.
C15_WindowsPartitionYears ==
    /\ YearsAscending
    /\ DaysCoveredOnce

(***************************************************************************)
(* Claims about private repositories (SpecContrib).                        *)
(***************************************************************************)
\* The records the run would be handed if upstream returned no record of a
\* private repository.
PublicRecords ==
    LET public == SelectSeq(activity, LAMBDA a :
                      a.year \in created_at.y..today.y /\ ~a.repository.isPrivate)
    IN  [i \in 1..Len(public) |-> extract_repo_detail(public[i])]

\* What that run would count.
PublicCounts == sorted_counts(<<>>, PublicRecords, username, today)

PrivateUrls == {activity[i].repository.url : i \in {j \in 1..Len(activity) :
                                                     activity[j].repository.isPrivate}}

\* C16: without include_private, the four counts by repository and by
\* owner are those of a run that was never handed a record of a private
\* repository, and no private repository is listed among the other
\* repositories.
C16_PrivateRecordsLeftOut ==
    ContributionReturned /\ ~include_private =>
        /\ contribution.contribution_count_per_owned_repo = PublicCounts.owned_repo
        /\ contribution.contribution_count_per_other_repo = PublicCounts.other_repo
        /\ contribution.contribution_count_per_repo_user_owner = PublicCounts.User
        /\ contribution.contribution_count_per_repo_org_owner = PublicCounts.Organization
        /\ \A i \in 1..Len(contribution.contribution_count_per_other_repo) :
              contribution.contribution_count_per_other_repo[i].html_url \notin PrivateUrls

\* A run without include_private that was handed a record of the private
\* repository of an organization and one of a public repository of the
\* same organization, and counted the public one alone.
C16_Witness ==
    /\ ContributionReturned
    /\ ~include_private
    /\ Len(activity) = 2
    /\ activity[1].repository.isPrivate
    /\ activity[1].totalCount = 2
    /\ activity[2].repository = ContribRepo("lib", "octo-org", "Organization", FALSE)
    /\ activity[2].totalCount = 1
    /\ contribution.contribution_count_per_repo_org_owner = <<[k |-> "octo-org", v |-> 1]>>
    /\ Len(contribution.contribution_count_per_other_repo) = 1

=============================================================================
